---- MODULE Spec2Model ----
(***************************************************************************)
(* Model of jax/_src/numpy/setops.py: the sorting-based uniqueness         *)
(* primitive (_unique_sorted_mask, _unique, unique) and the set operations *)
(* built on it (in1d, isin, union1d, setdiff1d, setxor1d, intersect1d),    *)
(* restricted to one-dimensional integer arrays.                           *)
(*                                                                         *)
(* Arrays are sequences; the code's positions are 0-based and are kept     *)
(* 0-based in every index array (perm, ind, inverse, counts boundaries).   *)
(* An optional argument is None (<<>>) or Some(v) (<<v>>).                 *)
(***************************************************************************)
EXTENDS Integers, Sequences, FiniteSets, TLC

\* Bounds of the explored inputs.
MaxLen == 3
MaxLenB == 2
MaxSize == 4

None == <<>>
Some(v) == <<v>>

\* Element values: three values realise every order pattern of three
\* elements.  Fill values: one that is no element value, one that is.
Vals == {0, 1, 2}
FillVals == {-1, 0}
Arrays(n) == UNION {[1..k -> Vals] : k \in 0..n}
Sizes == {None} \cup {Some(s) : s \in 0..MaxSize}
Fills == {None} \cup {Some(f) : f \in FillVals}

(***************************************************************************)
(* Array primitives used by the module (numpy semantics).                  *)
(***************************************************************************)
\* a[i] for a 0-based position i.
At(a, i) == a[i + 1]

\* Python truthiness of an optional integer: None and 0 are false.
Truthy(opt) == opt # None /\ opt[1] # 0

\* mask.sum(): number of true entries.
sum(mask) == Cardinality({j \in 1..Len(mask) : mask[j]})

\* cumsum(mask): running count of true entries.
cumsum(mask) == [j \in 1..Len(mask) |-> sum(SubSeq(mask, 1, j))]

\* diff(idx): differences of consecutive entries.
diff(idx) ==
  IF Len(idx) = 0 THEN <<>> ELSE [j \in 1..(Len(idx) - 1) |-> idx[j + 1] - idx[j]]

\* arange(n)
arange(n) == [j \in 1..n |-> j - 1]

\* full_like(ar, fill_value, shape=n)
full_like(n, fill_value) == [j \in 1..n |-> fill_value]

\* concatenate((a, b))
concatenate(a, b) == a \o b

\* a[idx] for an integer index array idx.
take(a, idx) == [j \in 1..Len(idx) |-> At(a, idx[j])]

\* nonzero(mask)[0] with no size: the positions of the true entries, ascending.
nonzero_all(mask) ==
  [j \in 1..sum(mask) |->
     CHOOSE i \in 0..(Len(mask) - 1) :
       At(mask, i) /\ sum(SubSeq(mask, 1, i)) = j - 1]

\* nonzero(mask, size=n)[0]: the first n positions of true entries, padded
\* with position 0 when fewer than n exist.
nonzero(mask, n) ==
  [j \in 1..n |-> IF j <= sum(mask) THEN nonzero_all(mask)[j] ELSE 0]

\* a[mask] for a boolean mask of the length of a.
compress(a, mask) == take(a, nonzero_all(mask))

\* where(cond, x, y), elementwise; y is a scalar.
where(cond, x, y) == [j \in 1..Len(cond) |-> IF cond[j] THEN x[j] ELSE y]

\* Stable sort permutation (lexsort with a single key): perm[j] is the
\* position of the element of rank j, ties broken by original position.
rank(ar, i) ==
  Cardinality({p \in 0..(Len(ar) - 1) :
                 At(ar, p) < At(ar, i) \/ (At(ar, p) = At(ar, i) /\ p < i)})

lexsort(ar) ==
  [j \in 1..Len(ar) |-> CHOOSE i \in 0..(Len(ar) - 1) : rank(ar, i) = j - 1]

sort(ar) == take(ar, lexsort(ar))

\* An exception: nothing is returned.
Raise(e) == [raised |-> e, out |-> <<>>]

\* Faulty variant: a negative size is let through.
negative_size_accepted(size) == FALSE

\* nonzero(mask, size=size) and full_like(..., shape=size) are given the
\* caller's size unchanged; a negative size is refused there as an invalid
\* argument.
negative_size(size) == size # None /\ size[1] < 0

\* Faulty variant: the mask starts from zeros, so position 0 is not flagged.
first_occurrence_mask_from_zeros(aux) ==
  [j \in 1..Len(aux) |-> j > 1 /\ aux[j] # aux[j - 1]]

\* Faulty variant: the comparison is written to the wrong slice, so the last
\* entry of each run of equal values is flagged instead of the first.
first_occurrence_mask_last_of_run(aux) ==
  [j \in 1..Len(aux) |-> j = Len(aux) \/ aux[j + 1] # aux[j]]

\* The mask of _unique_sorted_mask (lines 229-238): true at position 0 and
\* wherever the sorted array differs from its predecessor; all false when
\* the sorted array is empty.
first_occurrence_mask(aux) ==
  IF Len(aux) # 0
  THEN [j \in 1..Len(aux) |-> j = 1 \/ aux[j] # aux[j - 1]]
  ELSE [j \in 1..Len(aux) |-> FALSE]

(***************************************************************************)
(* _unique_sorted_mask(ar, axis) for a 1-D array: out_shape is () and its  *)
(* product is 1, so the lexsort branch is always the one taken.            *)
(***************************************************************************)
_unique_sorted_mask(ar) ==
  [aux |-> sort(ar), mask |-> first_occurrence_mask(sort(ar)), perm |-> lexsort(ar)]

\* Faulty variant: without size the last first occurrence is sliced off.
_unique_select_drop_last(aux, mask, size) ==
  IF Len(aux) # 0
  THEN (IF size = None
        THEN SubSeq(compress(aux, mask), 1, sum(mask) - 1)
        ELSE take(aux, nonzero(mask, size[1])))
  ELSE aux

\* Lines 251-256: the selected entries of aux, before any fill.
_unique_select(aux, mask, size) ==
  IF Len(aux) # 0
  THEN (IF size = None THEN compress(aux, mask)
        ELSE take(aux, nonzero(mask, size[1])))
  ELSE aux

\* Faulty variant: an omitted fill_value pads with the zero of the dtype.
_unique_result_zero_default(aux, mask, size, fill_value) ==
  IF size # None /\ Len(_unique_select(aux, mask, size)) # 0
  THEN where([j \in 1..size[1] |-> (j - 1) < sum(mask)],
             _unique_select(aux, mask, size),
             IF fill_value = None THEN 0 ELSE fill_value[1])
  ELSE IF size # None /\ fill_value # None THEN full_like(size[1], fill_value[1])
  ELSE _unique_select(aux, mask, size)

\* Faulty variant: the padded slots are not overwritten with fill_value.
_unique_result_no_fill(aux, mask, size, fill_value) ==
  IF Len(aux) # 0
  THEN _unique_select(aux, mask, size)
  ELSE IF size # None /\ fill_value # None THEN full_like(size[1], fill_value[1])
  ELSE aux

\* The unique values: selection of the first occurrences, then padding.
_unique_result(aux, mask, size, fill_value) ==
  IF size # None /\ fill_value # None
  THEN IF Len(_unique_select(aux, mask, size)) # 0
       THEN where([j \in 1..size[1] |-> (j - 1) < sum(mask)],
                  _unique_select(aux, mask, size), fill_value[1])
       ELSE full_like(size[1], fill_value[1])
  ELSE _unique_select(aux, mask, size)

\* Faulty variant: the padded slots hold the last entry of perm.
_unique_index_pad_last(aux, mask, perm, size) ==
  IF Len(aux) # 0
  THEN (IF size = None THEN compress(perm, mask)
        ELSE [j \in 1..size[1] |->
                IF j <= sum(mask) THEN At(perm, nonzero(mask, size[1])[j])
                ELSE At(perm, Len(perm) - 1)])
  ELSE perm

\* return_index: the original position of each selected first occurrence.
_unique_index(aux, mask, perm, size) ==
  IF Len(aux) # 0
  THEN (IF size = None THEN compress(perm, mask)
        ELSE take(perm, nonzero(mask, size[1])))
  ELSE perm

\* Faulty variant: the ranks are left in sorted order, not scattered by perm.
_unique_inverse_unscattered(ar, aux, mask, perm) ==
  IF Len(aux) # 0
  THEN [j \in 1..Len(mask) |-> cumsum(mask)[j] - 1]
  ELSE [p \in 1..Len(ar) |-> 0]

\* return_inverse: cumulative mask count scattered back through perm.
_unique_inverse(ar, aux, mask, perm) ==
  IF Len(aux) # 0
  THEN [p \in 1..Len(mask) |->
          cumsum(mask)[CHOOSE j \in 1..Len(perm) : perm[j] = p - 1] - 1]
  ELSE [p \in 1..Len(ar) |-> 0]

\* Faulty variant: the padding positions of idx are not moved to mask.size.
_unique_counts_no_sentinel(ar, aux, mask, size) ==
  IF Len(aux) # 0
  THEN IF size = None
       THEN diff(nonzero_all(mask) \o <<Len(mask)>>)
       ELSE diff(nonzero(mask, size[1] + 1))
  ELSE IF Len(ar) # 0 THEN <<Len(ar)>>
  ELSE <<>>

\* Line 287: idx.at[1:].set(where(idx[1:], idx[1:], mask.size))
counts_sentinel(idx, n) ==
  [j \in 1..Len(idx) |-> IF j = 1 \/ idx[j] # 0 THEN idx[j] ELSE n]

\* return_counts: differences of consecutive first-occurrence positions.
_unique_counts(ar, aux, mask, size) ==
  IF Len(aux) # 0
  THEN IF size = None
       THEN diff(nonzero_all(mask) \o <<Len(mask)>>)
       ELSE diff(counts_sentinel(nonzero(mask, size[1] + 1), Len(mask)))
  ELSE IF Len(ar) # 0 THEN <<Len(ar)>>
  ELSE <<>>

\* Faulty variant: the inverse index is clipped to the slots of a sized result.
_unique_ret_clipped_inverse(ar, sm, return_index, return_inverse, return_counts, size, fill_value) ==
  <<_unique_result(sm.aux, sm.mask, size, fill_value)>>
  \o (IF return_index THEN <<_unique_index(sm.aux, sm.mask, sm.perm, size)>> ELSE <<>>)
  \o (IF return_inverse
      THEN <<[p \in 1..Len(_unique_inverse(ar, sm.aux, sm.mask, sm.perm)) |->
                IF size # None
                   /\ _unique_inverse(ar, sm.aux, sm.mask, sm.perm)[p] > size[1] - 1
                THEN size[1] - 1
                ELSE _unique_inverse(ar, sm.aux, sm.mask, sm.perm)[p]]>>
      ELSE <<>>)
  \o (IF return_counts THEN <<_unique_counts(ar, sm.aux, sm.mask, size)>> ELSE <<>>)

\* Lines 267-292: the tuple of outputs built from sm = (aux, mask, perm).
_unique_ret(ar, sm, return_index, return_inverse, return_counts, size, fill_value) ==
  <<_unique_result(sm.aux, sm.mask, size, fill_value)>>
  \o (IF return_index THEN <<_unique_index(sm.aux, sm.mask, sm.perm, size)>> ELSE <<>>)
  \o (IF return_inverse THEN <<_unique_inverse(ar, sm.aux, sm.mask, sm.perm)>> ELSE <<>>)
  \o (IF return_counts THEN <<_unique_counts(ar, sm.aux, sm.mask, size)>> ELSE <<>>)

\* Line 296: ret[0] if len(ret) == 1 else ret
unwrap(ret) == IF Len(ret) = 1 THEN ret[1] ELSE ret

\* Faulty variant: the check of line 246 does not look at fill_value.
_unique_raise_ignores_fill(ar, return_index, return_inverse, return_counts, size, fill_value) ==
  IF Len(ar) = 0 /\ Truthy(size)
  THEN Raise("ValueError")
  ELSE IF negative_size(size)
  THEN Raise("InvalidArgument")
  ELSE [raised |-> "none",
        out |-> unwrap(_unique_ret(ar, _unique_sorted_mask(ar), return_index,
                                   return_inverse, return_counts, size, fill_value))]

\* _unique(ar, 0, ...): raises, or returns one array / a tuple of arrays.
_unique(ar, return_index, return_inverse, return_counts, size, fill_value) ==
  IF Len(ar) = 0 /\ Truthy(size) /\ fill_value = None
  THEN Raise("ValueError")
  ELSE IF negative_size(size)
  \* nonzero(mask, size=size), line 255
  THEN Raise("InvalidArgument")
  ELSE [raised |-> "none",
        out |-> unwrap(_unique_ret(ar, _unique_sorted_mask(ar), return_index,
                                   return_inverse, return_counts, size, fill_value))]

\* unique(ar, ..., axis=None, size, fill_value) on concrete 1-D input.
unique(ar, return_index, return_inverse, return_counts, size, fill_value) ==
  _unique(ar, return_index, return_inverse, return_counts, size, fill_value)

\* Lines 315-317: without size the data must be concrete; is_traced says that
\* ar is a tracer.
unique_checked(ar, is_traced, return_index, return_inverse, return_counts, size, fill_value) ==
  IF size = None /\ is_traced
  THEN Raise("ConcretizationTypeError")
  ELSE unique(ar, return_index, return_inverse, return_counts, size, fill_value)

\* unique(ar): the plain call, as the other operations make it.
unique1(ar) == unique(ar, FALSE, FALSE, FALSE, None, None).out

(***************************************************************************)
(* Membership.                                                             *)
(***************************************************************************)
\* Faulty variant: the inverted query reduces with any instead of all.
in1d_invert_any(ar1, ar2, assume_unique, invert) ==
  IF invert
  THEN [i \in 1..Len(ar1) |-> \E j \in 1..Len(ar2) : ar1[i] # ar2[j]]
  ELSE [i \in 1..Len(ar1) |-> \E j \in 1..Len(ar2) : ar1[i] = ar2[j]]

in1d(ar1, ar2, assume_unique, invert) ==
  IF invert
  THEN [i \in 1..Len(ar1) |-> \A j \in 1..Len(ar2) : ar1[i] # ar2[j]]
  ELSE [i \in 1..Len(ar1) |-> \E j \in 1..Len(ar2) : ar1[i] = ar2[j]]

\* isin reshapes in1d's result to the shape of element (1-D: unchanged).
isin(element, test_elements, assume_unique, invert) ==
  in1d(element, test_elements, assume_unique, invert)

(***************************************************************************)
(* Derived set operations.                                                 *)
(***************************************************************************)
\* Faulty variant: the first array is concatenated with itself.
union1d_left_twice(ar1, ar2, size, fill_value) ==
  unique(concatenate(ar1, ar1), FALSE, FALSE, FALSE, size, fill_value)

union1d(ar1, ar2, size, fill_value) ==
  unique(concatenate(ar1, ar2), FALSE, FALSE, FALSE, size, fill_value)

\* Faulty variant: every entry of the padded unique() result counts as genuine.
setdiff1d_n_unique_all(u) == Len(u)

\* Lines 112-114: without size both arrays must be concrete.
union1d_checked(ar1, ar2, is_traced, size, fill_value) ==
  IF size = None /\ is_traced
  THEN Raise("ConcretizationTypeError")
  ELSE union1d(ar1, ar2, size, fill_value)

\* Number of genuine entries of unique(ar1, size=ar1.size) (line 91).
setdiff1d_n_unique(u) ==
  Len(u) + 1 - sum([j \in 1..Len(u) |-> u[j] = At(u, 0)])

\* Faulty variant: the membership test is not inverted.
setdiff1d_unsized_not_inverted(u, ar2) ==
  compress(u, in1d(u, ar2, FALSE, FALSE))

\* size is None: the entries of the deduplicated ar1 that are not in ar2.
setdiff1d_unsized(u, ar2) ==
  compress(u, in1d(u, ar2, FALSE, TRUE))

\* Lines 85, 89-92: the inverted membership mask, set to false at the
\* positions of unique()'s padding.
setdiff1d_mask(u, ar2, assume_unique) ==
  IF ~assume_unique
  THEN [j \in 1..Len(u) |->
          IF (j - 1) < setdiff1d_n_unique(u)
          THEN in1d(u, ar2, FALSE, TRUE)[j] ELSE FALSE]
  ELSE in1d(u, ar2, FALSE, TRUE)

\* Line 93: select the first size survivors and fill the rest.
setdiff1d_fill(u, mask, size, fill) ==
  where([j \in 1..size |-> (j - 1) < sum(mask)], take(u, nonzero(mask, size)), fill)

\* size is given (size is the integer).
setdiff1d_sized(u, ar2, assume_unique, size, fill) ==
  setdiff1d_fill(u, setdiff1d_mask(u, ar2, assume_unique), size, fill)

\* Lines 85-93, with u the value of ar1 after the deduplication of line 84.
setdiff1d_rest(u, ar2, assume_unique, size, fill) ==
  IF size = None
  THEN [raised |-> "none", out |-> setdiff1d_unsized(u, ar2)]
  ELSE IF ~assume_unique /\ Len(u) = 0
  \* ar1[0] (line 91) on an array of size 0: the indexing raises.
  THEN Raise("IndexError")
  ELSE IF negative_size(size)
  \* where(mask, size=size), line 93
  THEN Raise("InvalidArgument")
  ELSE [raised |-> "none",
        out |-> setdiff1d_sized(u, ar2, assume_unique, size[1], fill)]

\* size and ar1.size (line 84)
size_and(size, n) ==
  IF size = None THEN None ELSE IF size[1] = 0 THEN Some(0) ELSE Some(n)

setdiff1d(ar1, ar2, assume_unique, size, fill_value) ==
  IF Len(ar1) = 0 /\ negative_size(size)
  \* full_like(ar1, fill_value, shape=size or 0), line 82
  THEN Raise("InvalidArgument")
  ELSE IF Len(ar1) = 0
  THEN [raised |-> "none",
        out |-> full_like(IF Truthy(size) THEN size[1] ELSE 0,
                          IF fill_value = None THEN 0 ELSE fill_value[1])]
  ELSE setdiff1d_rest(
         IF ~assume_unique
         THEN unique(ar1, FALSE, FALSE, FALSE, size_and(size, Len(ar1)), None).out
         ELSE ar1,
         ar2, assume_unique, size,
         IF fill_value = None THEN 0 ELSE fill_value[1])

\* Faulty variant: the concreteness check of line 76 is missing.
setdiff1d_unchecked(ar1, ar2, is_traced, assume_unique, size, fill_value) ==
  setdiff1d(ar1, ar2, assume_unique, size, fill_value)

\* Lines 75-78: without size ar1 must be concrete.
setdiff1d_checked(ar1, ar2, is_traced, assume_unique, size, fill_value) ==
  IF size = None /\ is_traced
  THEN Raise("ConcretizationTypeError")
  ELSE setdiff1d(ar1, ar2, assume_unique, size, fill_value)

\* Faulty variant: only the left boundary flag is consulted.
setxor1d_select_left_flag(aux) ==
  compress(aux, [j \in 1..Len(aux) |-> j = 1 \/ aux[j] # aux[j - 1]])

\* The boundary flags of setxor1d (line 141).
setxor1d_flag(aux) ==
  [j \in 1..(Len(aux) + 1) |-> j = 1 \/ j = Len(aux) + 1 \/ aux[j] # aux[j - 1]]

\* The selection of setxor1d (line 142): aux[flag[1:] & flag[:-1]].
setxor1d_select(aux) ==
  compress(aux, [j \in 1..Len(aux) |-> setxor1d_flag(aux)[j + 1] /\ setxor1d_flag(aux)[j]])

\* Lines 136-142, on the deduplicated inputs.
setxor1d_rest(aux) ==
  IF Len(aux) = 0 THEN aux ELSE setxor1d_select(sort(aux))

setxor1d(ar1, ar2, assume_unique) ==
  setxor1d_rest(concatenate(IF ~assume_unique THEN unique1(ar1) ELSE ar1,
                            IF ~assume_unique THEN unique1(ar2) ELSE ar2))

\* Lines 126-127: both arrays must be concrete.
setxor1d_checked(ar1, ar2, is_traced, assume_unique) ==
  IF is_traced
  THEN Raise("ConcretizationTypeError")
  ELSE [raised |-> "none", out |-> setxor1d(ar1, ar2, assume_unique)]

\* aux[1:] == aux[:-1] (line 157)
adjacent_equal(aux) ==
  IF Len(aux) = 0 THEN <<>>
  ELSE [j \in 1..(Len(aux) - 1) |-> aux[j + 1] = aux[j]]

\* Faulty variant: the concatenation is not sorted before the comparison.
_intersect1d_unsorted_mask(ar1, ar2) ==
  [aux |-> concatenate(ar1, ar2),
   mask |-> adjacent_equal(concatenate(ar1, ar2)),
   indices |-> arange(Len(ar1) + Len(ar2))]

\* _intersect1d_sorted_mask(ar1, ar2, return_indices): the sort is stable in
\* both branches; indices is returned to the caller only when requested.
_intersect1d_sorted_mask(ar1, ar2) ==
  [aux |-> sort(concatenate(ar1, ar2)),
   mask |-> adjacent_equal(sort(concatenate(ar1, ar2))),
   indices |-> lexsort(concatenate(ar1, ar2))]

\* a[:-1] and a[1:]
drop_last(a) == IF Len(a) = 0 THEN <<>> ELSE SubSeq(a, 1, Len(a) - 1)
drop_first(a) == IF Len(a) = 0 THEN <<>> ELSE Tail(a)

\* Faulty variant: the positions in the deduplicated arrays are returned
\* without being mapped back through ind1 and ind2.
intersect1d_rest_no_indirection(sm, n1, ind1, ind2, assume_unique, return_indices) ==
  IF return_indices
  THEN <<compress(drop_last(sm.aux), sm.mask),
         compress(drop_last(sm.indices), sm.mask),
         [j \in 1..sum(sm.mask) |->
            compress(drop_first(sm.indices), sm.mask)[j] - n1]>>
  ELSE compress(drop_last(sm.aux), sm.mask)

\* Lines 186-197, with sm the sorted mask, n1 = ar1.size after line 172-179
\* and ind1, ind2 the first-occurrence indices (used when not assume_unique).
intersect1d_rest(sm, n1, ind1, ind2, assume_unique, return_indices) ==
  IF return_indices
  THEN <<compress(drop_last(sm.aux), sm.mask),
         IF ~assume_unique
         THEN take(ind1, compress(drop_last(sm.indices), sm.mask))
         ELSE compress(drop_last(sm.indices), sm.mask),
         IF ~assume_unique
         THEN take(ind2, [j \in 1..sum(sm.mask) |->
                            compress(drop_first(sm.indices), sm.mask)[j] - n1])
         ELSE [j \in 1..sum(sm.mask) |->
                 compress(drop_first(sm.indices), sm.mask)[j] - n1]>>
  ELSE compress(drop_last(sm.aux), sm.mask)

\* Lines 170-184, with u1, u2 the results of the two unique calls (or the
\* raveled inputs when assume_unique).
intersect1d_dedup(u1, u2, assume_unique, return_indices) ==
  IF ~assume_unique /\ return_indices
  THEN intersect1d_rest(_intersect1d_sorted_mask(u1[1], u2[1]), Len(u1[1]),
                        u1[2], u2[2], assume_unique, return_indices)
  ELSE intersect1d_rest(_intersect1d_sorted_mask(u1, u2), Len(u1),
                        <<>>, <<>>, assume_unique, return_indices)

intersect1d(ar1, ar2, assume_unique, return_indices) ==
  intersect1d_dedup(
    IF ~assume_unique THEN unique(ar1, return_indices, FALSE, FALSE, None, None).out
    ELSE ar1,
    IF ~assume_unique THEN unique(ar2, return_indices, FALSE, FALSE, None, None).out
    ELSE ar2,
    assume_unique, return_indices)

\* Lines 167-168: both arrays must be concrete.
intersect1d_checked(ar1, ar2, is_traced, assume_unique, return_indices) ==
  IF is_traced
  THEN Raise("ConcretizationTypeError")
  ELSE [raised |-> "none", out |-> intersect1d(ar1, ar2, assume_unique, return_indices)]

(***************************************************************************)
(* _unique_sorted_mask(ar, 0) for a 2-D array of shape (size, ncols), held *)
(* as the sequence of its rows: out_shape is (ncols,).  The keys of the    *)
(* lexsort are the columns, the first column the most significant, so the  *)
(* rows are ordered lexicographically, ties by original position.          *)
(***************************************************************************)
row_lt(a, b) ==
  \E k \in 1..Len(a) : a[k] < b[k] /\ \A l \in 1..(k - 1) : a[l] = b[l]

rank_rows(ar, i) ==
  Cardinality({p \in 0..(Len(ar) - 1) :
                 row_lt(At(ar, p), At(ar, i)) \/ (At(ar, p) = At(ar, i) /\ p < i)})

lexsort_rows(ar) ==
  [j \in 1..Len(ar) |-> CHOOSE i \in 0..(Len(ar) - 1) : rank_rows(ar, i) = j - 1]

\* Faulty variant: the placeholder is chosen when the working axis is empty.
_unique_sorted_mask_2d_empty_axis(ar, ncols) ==
  IF Len(ar) = 0
  THEN [aux |-> <<>>, mask |-> <<FALSE>>, perm |-> <<0>>]
  ELSE [aux  |-> take(ar, lexsort_rows(ar)),
        mask |-> IF ncols # 0 THEN first_occurrence_mask(take(ar, lexsort_rows(ar)))
                 ELSE [j \in 1..Len(ar) |-> FALSE],
        perm |-> lexsort_rows(ar)]

_unique_sorted_mask_2d(ar, ncols) ==
  IF ncols = 0
  \* _prod(out_shape) == 0: size = 1, perm = zeros(1); aux.size is 0.
  THEN [aux |-> take(ar, <<0>>), mask |-> <<FALSE>>, perm |-> <<0>>]
  ELSE [aux  |-> take(ar, lexsort_rows(ar)),
        mask |-> first_occurrence_mask(take(ar, lexsort_rows(ar))),
        perm |-> lexsort_rows(ar)]

\* _unique_sorted_mask(ar, 0) for an array of the given shape (1-D or 2-D).
_unique_sorted_mask_axis0(ar, shape) ==
  IF Len(shape) = 1 THEN _unique_sorted_mask(ar)
  ELSE _unique_sorted_mask_2d(ar, shape[2])

(***************************************************************************)
(* State machine: one call of one operation on drawn arguments.            *)
(*   pc          "start" before the call, "done" after it                  *)
(*   op          the operation that was called                             *)
(*   ar1, ar2    the array arguments (ar2 is <<>> for a one-array call); a *)
(*               2-D ar1 is the sequence of its rows                       *)
(*   shape       the shape of ar1                                          *)
(*   traced      the call is made under a transformation: the array        *)
(*               arguments are tracers, not concrete values                *)
(*   size, fill_value   the optional keyword arguments                     *)
(*   kw          the boolean keyword arguments of the call                 *)
(*   ret         [raised, out]: the exception raised, or the value returned*)
(***************************************************************************)
VARIABLES pc, op, ar1, ar2, shape, traced, size, fill_value, kw, ret

vars == <<pc, op, ar1, ar2, shape, traced, size, fill_value, kw, ret>>

NoKw == [assume_unique |-> FALSE, invert |-> FALSE, return_index |-> FALSE,
         return_inverse |-> FALSE, return_counts |-> FALSE, return_indices |-> FALSE]

Init ==
  /\ pc = "start"
  /\ op = "none"
  /\ ar1 \in Arrays(MaxLen)
  /\ ar2 \in Arrays(MaxLenB)
  /\ shape = <<Len(ar1)>>
  /\ traced = FALSE
  /\ size \in Sizes
  /\ fill_value \in Fills
  /\ kw = NoKw
  /\ ret = [raised |-> "none", out |-> <<>>]

\* unique(ar1, return_index, return_inverse, return_counts, size=, fill_value=)
CallUnique ==
  /\ pc = "start"
  /\ ar2 = <<>>
  /\ \E ri \in BOOLEAN, rv \in BOOLEAN, rc \in BOOLEAN :
       /\ kw' = [NoKw EXCEPT !.return_index = ri, !.return_inverse = rv,
                             !.return_counts = rc]
       /\ ret' = unique_checked(ar1, traced, ri, rv, rc, size, fill_value)
  /\ pc' = "done"
  /\ op' = "unique"
  /\ UNCHANGED <<ar1, ar2, shape, traced, size, fill_value>>

\* in1d(ar1, ar2, assume_unique, invert)
CallIn1d ==
  /\ pc = "start"
  /\ size = None /\ fill_value = None
  /\ \E au \in BOOLEAN, inv \in BOOLEAN :
       /\ kw' = [NoKw EXCEPT !.assume_unique = au, !.invert = inv]
       /\ ret' = [raised |-> "none", out |-> in1d(ar1, ar2, au, inv)]
  /\ pc' = "done"
  /\ op' = "in1d"
  /\ UNCHANGED <<ar1, ar2, shape, traced, size, fill_value>>

\* isin(ar1, ar2, assume_unique, invert)
CallIsin ==
  /\ pc = "start"
  /\ size = None /\ fill_value = None
  /\ \E au \in BOOLEAN, inv \in BOOLEAN :
       /\ kw' = [NoKw EXCEPT !.assume_unique = au, !.invert = inv]
       /\ ret' = [raised |-> "none", out |-> isin(ar1, ar2, au, inv)]
  /\ pc' = "done"
  /\ op' = "isin"
  /\ UNCHANGED <<ar1, ar2, shape, traced, size, fill_value>>

\* union1d(ar1, ar2, size=, fill_value=)
CallUnion1d ==
  /\ pc = "start"
  /\ kw' = NoKw
  /\ ret' = union1d_checked(ar1, ar2, traced, size, fill_value)
  /\ pc' = "done"
  /\ op' = "union1d"
  /\ UNCHANGED <<ar1, ar2, shape, traced, size, fill_value>>

\* setdiff1d(ar1, ar2, assume_unique, size=, fill_value=)
CallSetdiff1d ==
  /\ pc = "start"
  /\ \E au \in BOOLEAN :
       /\ kw' = [NoKw EXCEPT !.assume_unique = au]
       /\ ret' = setdiff1d_checked(ar1, ar2, traced, au, size, fill_value)
  /\ pc' = "done"
  /\ op' = "setdiff1d"
  /\ UNCHANGED <<ar1, ar2, shape, traced, size, fill_value>>

\* setxor1d(ar1, ar2, assume_unique)
CallSetxor1d ==
  /\ pc = "start"
  /\ size = None /\ fill_value = None
  /\ \E au \in BOOLEAN :
       /\ kw' = [NoKw EXCEPT !.assume_unique = au]
       /\ ret' = setxor1d_checked(ar1, ar2, traced, au)
  /\ pc' = "done"
  /\ op' = "setxor1d"
  /\ UNCHANGED <<ar1, ar2, shape, traced, size, fill_value>>

\* intersect1d(ar1, ar2, assume_unique, return_indices)
CallIntersect1d ==
  /\ pc = "start"
  /\ size = None /\ fill_value = None
  /\ \E au \in BOOLEAN, rix \in BOOLEAN :
       /\ kw' = [NoKw EXCEPT !.assume_unique = au, !.return_indices = rix]
       /\ ret' = intersect1d_checked(ar1, ar2, traced, au, rix)
  /\ pc' = "done"
  /\ op' = "intersect1d"
  /\ UNCHANGED <<ar1, ar2, shape, traced, size, fill_value>>

Next ==
  \/ CallUnique
  \/ CallIn1d
  \/ CallIsin
  \/ CallUnion1d
  \/ CallSetdiff1d
  \/ CallSetxor1d
  \/ CallIntersect1d

Spec == Init /\ [][Next]_vars

(***************************************************************************)
(* Argument checking: the same calls on smaller arrays, with and without   *)
(* tracing, and with a negative size among the sizes.                      *)
(***************************************************************************)
MaxLenT == 2

SizesChecked == {None} \cup {Some(s) : s \in (-1)..(MaxLenT + 1)}

InitChecks ==
  /\ pc = "start"
  /\ op = "none"
  /\ ar1 \in Arrays(MaxLenT)
  /\ ar2 \in Arrays(MaxLenT)
  /\ shape = <<Len(ar1)>>
  /\ traced \in BOOLEAN
  /\ size \in SizesChecked
  /\ fill_value \in Fills
  /\ kw = NoKw
  /\ ret = [raised |-> "none", out |-> <<>>]

SpecChecks == InitChecks /\ [][Next]_vars

(***************************************************************************)
(* The sorted-mask step on its own, on 1-D and 2-D input along axis 0.     *)
(***************************************************************************)
MaxRows == 2
MaxCols == 2

\* The arrays of a shape; shape (0, 0) is left out.
ArraysOfShape(sh) ==
  IF Len(sh) = 1 THEN [1..sh[1] -> Vals]
  ELSE [1..sh[1] -> [1..sh[2] -> Vals]]

Shapes ==
  {<<n>> : n \in 0..MaxRows}
    \cup ({<<n, m>> : n \in 0..MaxRows, m \in 0..MaxCols} \ {<<0, 0>>})

InitAxis ==
  /\ pc = "start"
  /\ op = "none"
  /\ shape \in Shapes
  /\ ar1 \in ArraysOfShape(shape)
  /\ ar2 = <<>>
  /\ traced = FALSE
  /\ size = None
  /\ fill_value = None
  /\ kw = NoKw
  /\ ret = [raised |-> "none", out |-> <<>>]

\* _unique_sorted_mask(ar1, 0)
CallUniqueSortedMask ==
  /\ pc = "start"
  /\ ret' = [raised |-> "none", out |-> _unique_sorted_mask_axis0(ar1, shape)]
  /\ kw' = NoKw
  /\ pc' = "done"
  /\ op' = "_unique_sorted_mask"
  /\ UNCHANGED <<ar1, ar2, shape, traced, size, fill_value>>

NextAxis == CallUniqueSortedMask

SpecAxis == InitAxis /\ [][NextAxis]_vars


(***************************************************************************)
(* Vocabulary of the properties.                                           *)
(***************************************************************************)
Done(name) == pc = "done" /\ op = name

Elems(s) == {s[j] : j \in 1..Len(s)}

StrictlyAscending(s) == \A j \in 1..(Len(s) - 1) : s[j] < s[j + 1]

\* Number of positions of s holding v.
Count(s, v) == Cardinality({j \in 1..Len(s) : s[j] = v})

Total(s) ==
  LET acc[j \in 0..Len(s)] == IF j = 0 THEN 0 ELSE acc[j - 1] + s[j]
  IN acc[Len(s)]

Min(a, b) == IF a < b THEN a ELSE b

B2N(b) == IF b THEN 1 ELSE 0

\* The outputs of the unique call held in ret, by their place in the tuple.
IsTuple == kw.return_index \/ kw.return_inverse \/ kw.return_counts
UValues == IF IsTuple THEN ret.out[1] ELSE ret.out
UInverse == ret.out[2 + B2N(kw.return_index)]
UCounts == ret.out[2 + B2N(kw.return_index) + B2N(kw.return_inverse)]

\* Number of distinct values of the first argument.
NDistinct == Cardinality(Elems(ar1))

(***************************************************************************)
(* C1: unique(x) with no size is strictly ascending (so it holds no two    *)
(* equal elements), every element of x occurs in it, and every element of  *)
(* it occurs in x.                                                         *)
(***************************************************************************)
C1_UniqueIsSortedSet ==
  (Done("unique") /\ size = None) =>
     /\ ret.raised = "none"
     /\ StrictlyAscending(UValues)
     /\ Elems(UValues) = Elems(ar1)

C1_Witness ==
  /\ Done("unique") /\ size = None /\ ~IsTuple
  /\ ar1 = <<1, 0, 1>>
  /\ ret.out = <<0, 1>>

(***************************************************************************)
(* C2: unique(x, size=s, fill_value=f) with s >= 0 and f supplied has      *)
(* length exactly s; with U = unique(x) and k = len(U), entry i is U[i]    *)
(* for i < min(s, k) and f for k <= i < s.  x may be empty.                *)
(***************************************************************************)
C2_SizedUniquePadsAndTruncates ==
  (Done("unique") /\ size # None /\ fill_value # None /\ size[1] >= 0) =>
     LET U == unique1(ar1)
         k == Len(U)
     IN /\ ret.raised = "none"
        /\ Len(UValues) = size[1]
        /\ \A j \in 1..size[1] :
             UValues[j] = IF j <= k THEN U[j] ELSE fill_value[1]

C2_Witness ==
  /\ Done("unique") /\ ~IsTuple
  /\ ar1 = <<1, 0, 1>> /\ size = Some(3) /\ fill_value = Some(-1)
  /\ ret.out = <<0, 1, -1>>

(***************************************************************************)
(* C3: for non-empty x, unique(x, return_counts=True, size=s) (s absent or *)
(* s >= 0) returns one count per returned slot: the number of positions of *)
(* x equal to the slot's value for a non-padding slot, 0 for a padded      *)
(* slot; counts of truncated values are dropped; the counts sum to len(x)  *)
(* when size is absent or at least the number of distinct values.          *)
(***************************************************************************)
C3_CountsAreMultiplicities ==
  (Done("unique") /\ kw.return_counts /\ Len(ar1) > 0
     /\ (size = None \/ size[1] >= 0)) =>
     /\ ret.raised = "none"
     /\ Len(UCounts) = (IF size = None THEN NDistinct ELSE size[1])
     /\ \A j \in 1..Len(UCounts) :
          UCounts[j] = IF j <= NDistinct THEN Count(ar1, UValues[j]) ELSE 0
     /\ (size = None \/ size[1] >= NDistinct) => Total(UCounts) = Len(ar1)

C3_Witness ==
  /\ Done("unique") /\ kw.return_counts /\ ~kw.return_index /\ ~kw.return_inverse
  /\ ar1 = <<1, 0, 0>> /\ size = Some(3) /\ fill_value = None
  /\ ret.out = << <<0, 1, 0>>, <<2, 1, 0>> >>

(***************************************************************************)
(* C4: for non-empty x and no truncation (size absent or size >= number of *)
(* distinct values), values[inverse[p]] == x[p] for every position p.      *)
(***************************************************************************)
C4_InverseRoundTrip ==
  (Done("unique") /\ kw.return_inverse /\ Len(ar1) > 0
     /\ (size = None \/ size[1] >= NDistinct)) =>
     /\ ret.raised = "none"
     /\ Len(UInverse) = Len(ar1)
     /\ \A p \in 1..Len(ar1) :
          /\ UInverse[p] \in 0..(Len(UValues) - 1)
          /\ At(UValues, UInverse[p]) = ar1[p]

C4_Witness ==
  /\ Done("unique") /\ kw.return_inverse /\ ~kw.return_index /\ ~kw.return_counts
  /\ ar1 = <<2, 0, 2>> /\ size = None
  /\ ret.out = << <<0, 2>>, <<1, 0, 1>> >>

(***************************************************************************)
(* C5: in1d(a, b)[i] is true exactly when some element of b equals a[i];   *)
(* with invert=True exactly when none does; the inverted result is the     *)
(* elementwise negation of the plain one; assume_unique changes nothing;   *)
(* isin returns the same values in the shape of a.                         *)
(***************************************************************************)
C5_MembershipIsExact ==
  (Done("in1d") \/ Done("isin")) =>
     /\ ret.raised = "none"
     /\ Len(ret.out) = Len(ar1)
     /\ \A i \in 1..Len(ar1) :
          ret.out[i] = IF kw.invert THEN ar1[i] \notin Elems(ar2)
                       ELSE ar1[i] \in Elems(ar2)
     /\ \A au \in BOOLEAN :
          /\ in1d(ar1, ar2, au, ~kw.invert) = [i \in 1..Len(ar1) |-> ~ret.out[i]]
          /\ isin(ar1, ar2, au, kw.invert) = ret.out

C5_Witness ==
  /\ Done("isin") /\ kw.invert /\ kw.assume_unique
  /\ ar1 = <<0, 1, 0>> /\ ar2 = <<1, 1>>
  /\ ret.out = <<TRUE, FALSE, TRUE>>


\* The value a sized call puts in slot j (1-based) of an output built from
\* the ascending duplicate-free array D: D[j] while it lasts, then f.
PadSlot(D, j, f) == IF j <= Len(D) THEN D[j] ELSE f

(***************************************************************************)
(* C6: union1d(a, b, size=s, fill_value=f) equals unique applied to the    *)
(* concatenation of a and b with the same size and fill_value; without     *)
(* size the result is the strictly ascending array whose value set is the  *)
(* values of a together with the values of b, so union1d(a, b) equals      *)
(* union1d(b, a).                                                          *)
(***************************************************************************)
C6_UnionIsUniqueOfConcatenation ==
  Done("union1d") =>
     /\ ret = unique(concatenate(ar1, ar2), FALSE, FALSE, FALSE, size, fill_value)
     /\ size = None =>
          /\ ret.raised = "none"
          /\ StrictlyAscending(ret.out)
          /\ Elems(ret.out) = Elems(ar1) \cup Elems(ar2)
          /\ union1d(ar2, ar1, None, fill_value) = ret

C6_Witness ==
  /\ Done("union1d") /\ size = None
  /\ ar1 = <<2, 0, 2>> /\ ar2 = <<1, 2>>
  /\ ret.out = <<0, 1, 2>>

(***************************************************************************)
(* C7: with assume_unique=False, intersect1d(a, b) is the strictly         *)
(* ascending array holding exactly the values that occur in both a and b,  *)
(* each once; intersect1d(a, b) and intersect1d(b, a) are identical.       *)
(***************************************************************************)
IValues == IF kw.return_indices THEN ret.out[1] ELSE ret.out

C7_IntersectIsSortedCommonValues ==
  (Done("intersect1d") /\ ~kw.assume_unique) =>
     /\ ret.raised = "none"
     /\ StrictlyAscending(IValues)
     /\ Elems(IValues) = Elems(ar1) \cap Elems(ar2)
     /\ intersect1d(ar2, ar1, FALSE, FALSE) = IValues

C7_Witness ==
  /\ Done("intersect1d") /\ ~kw.assume_unique /\ ~kw.return_indices
  /\ ar1 = <<2, 1, 2>> /\ ar2 = <<0, 1>>
  /\ ret.out = <<1>>

(***************************************************************************)
(* C8: with assume_unique=False and no size, setdiff1d(a, b) equals        *)
(* unique(a) restricted to the positions where in1d(unique(a), b,          *)
(* invert=True) is true: the ascending, duplicate-free array of exactly    *)
(* the values of a that do not occur in b.                                 *)
(***************************************************************************)
C8_SetdiffAgreesWithInvertedMembership ==
  (Done("setdiff1d") /\ ~kw.assume_unique /\ size = None) =>
     LET U == unique1(ar1)
         M == in1d(U, ar2, FALSE, TRUE)
     IN /\ ret.raised = "none"
        /\ Len(ret.out) = Cardinality({j \in 1..Len(U) : M[j]})
        /\ \A j \in 1..Len(U) : M[j] <=> U[j] \in Elems(ret.out)
        /\ StrictlyAscending(ret.out)
        /\ Elems(ret.out) = Elems(ar1) \ Elems(ar2)

C8_Witness ==
  /\ Done("setdiff1d") /\ ~kw.assume_unique /\ size = None
  /\ ar1 = <<2, 0, 1>> /\ ar2 = <<1>>
  /\ ret.out = <<0, 2>>

(***************************************************************************)
(* C9: for non-empty a, size s >= 1 and assume_unique=False,               *)
(* setdiff1d(a, b, size=s, fill_value=f) has length s; with D the result   *)
(* without size and m = len(D), entry i is D[i] for i < min(s, m) and f    *)
(* (0 when fill_value is omitted) for m <= i < s: no copy of a value that  *)
(* the internal deduplication padded with appears as a survivor.           *)
(***************************************************************************)
C9_SizedSetdiffPadsAndTruncates ==
  (Done("setdiff1d") /\ ~kw.assume_unique /\ Len(ar1) > 0
     /\ size # None /\ size[1] >= 1) =>
     LET D == setdiff1d(ar1, ar2, FALSE, None, fill_value).out
         f == IF fill_value = None THEN 0 ELSE fill_value[1]
     IN /\ ret.raised = "none"
        /\ Len(ret.out) = size[1]
        /\ \A j \in 1..size[1] : ret.out[j] = PadSlot(D, j, f)

C9_Witness ==
  /\ Done("setdiff1d") /\ ~kw.assume_unique
  /\ ar1 = <<1, 1, 2>> /\ ar2 = <<0>> /\ size = Some(3) /\ fill_value = Some(-1)
  /\ ret.out = <<1, 2, -1>>

(***************************************************************************)
(* C10: with assume_unique=False, setxor1d(a, b) is the ascending array    *)
(* holding exactly the values that occur in exactly one of a and b, each   *)
(* once; setxor1d(a, a) is empty and setxor1d(a, b) == setxor1d(b, a).     *)
(***************************************************************************)
C10_SetxorIsSortedSymmetricDifference ==
  (Done("setxor1d") /\ ~kw.assume_unique) =>
     /\ ret.raised = "none"
     /\ StrictlyAscending(ret.out)
     /\ Elems(ret.out) = (Elems(ar1) \ Elems(ar2)) \cup (Elems(ar2) \ Elems(ar1))
     /\ setxor1d(ar1, ar1, FALSE) = <<>>
     /\ setxor1d(ar2, ar1, FALSE) = ret.out

C10_Witness ==
  /\ Done("setxor1d") /\ ~kw.assume_unique
  /\ ar1 = <<2, 0, 2>> /\ ar2 = <<0, 1>>
  /\ ret.out = <<1, 2>>


\* The least element of a non-empty set of integers.
MinOf(S) == CHOOSE v \in S : \A w \in S : v <= w

UIndex == ret.out[2]

(***************************************************************************)
(* C11: for non-empty x and size s larger than the number of distinct      *)
(* values, with fill_value omitted the padded entries of unique(x, size=s) *)
(* all equal the minimum of x, and the padded entries of                   *)
(* union1d(a, b, size=s) all equal the minimum of the union (not zero).    *)
(***************************************************************************)
C11_DefaultFillIsMinimum ==
  /\ (Done("unique") /\ size # None /\ fill_value = None /\ Len(ar1) > 0
        /\ size[1] > NDistinct) =>
       /\ ret.raised = "none"
       /\ Len(UValues) = size[1]
       /\ \A j \in (NDistinct + 1)..size[1] : UValues[j] = MinOf(Elems(ar1))
  /\ (Done("union1d") /\ size # None /\ fill_value = None /\ Len(ar1) + Len(ar2) > 0
        /\ size[1] > Cardinality(Elems(ar1) \cup Elems(ar2))) =>
       /\ ret.raised = "none"
       /\ Len(ret.out) = size[1]
       /\ \A j \in (Cardinality(Elems(ar1) \cup Elems(ar2)) + 1)..size[1] :
            ret.out[j] = MinOf(Elems(ar1) \cup Elems(ar2))

C11_Witness ==
  /\ Done("unique") /\ ~IsTuple
  /\ ar1 = <<2, 1, 2>> /\ size = Some(4) /\ fill_value = None
  /\ ret.out = <<1, 2, 1, 1>>

(***************************************************************************)
(* C12: unique(unique(x)) == unique(x): applying unique with no size to    *)
(* its own result returns the same array.                                  *)
(***************************************************************************)
C12_UniqueIsIdempotent ==
  (Done("unique") /\ size = None) =>
     /\ ret.raised = "none"
     /\ unique1(UValues) = UValues

C12_Witness ==
  /\ Done("unique") /\ size = None /\ ~IsTuple
  /\ ar1 = <<2, 0, 2>>
  /\ ret.out = <<0, 2>>
  /\ unique1(ret.out) = <<0, 2>>

(***************************************************************************)
(* C13: unique raises, and returns nothing, when the input has length 0    *)
(* along the working axis, size > 0 and no fill_value is supplied; for     *)
(* concrete input it raises in no other combination of (empty or not,      *)
(* size absent / 0 / positive, fill_value supplied or not).                *)
(***************************************************************************)
C13_RaisesOnlyForEmptyInputWithoutFill ==
  (Done("unique") /\ ~traced /\ (size = None \/ size[1] >= 0)) =>
     IF Len(ar1) = 0 /\ size # None /\ size[1] > 0 /\ fill_value = None
     THEN ret.raised = "ValueError" /\ ret.out = <<>>
     ELSE ret.raised = "none"

C13_Witness ==
  /\ Done("unique") /\ ~traced
  /\ ar1 = <<>> /\ size = Some(2) /\ fill_value = None
  /\ ret.raised = "ValueError"

(***************************************************************************)
(* C16: for non-empty x and (values, index) = unique(x, return_index=True),*)
(* for every non-padding slot i: x[index[i]] == values[i] and index[i] is  *)
(* the smallest position of x holding that value.                          *)
(***************************************************************************)
C16_IndexIsFirstOccurrence ==
  (Done("unique") /\ kw.return_index /\ Len(ar1) > 0
     /\ (size = None \/ size[1] >= 0)) =>
     /\ ret.raised = "none"
     /\ \A j \in 1..Min(Len(UValues), NDistinct) :
          /\ UIndex[j] \in 0..(Len(ar1) - 1)
          /\ At(ar1, UIndex[j]) = UValues[j]
          /\ \A p \in 0..(UIndex[j] - 1) : At(ar1, p) # UValues[j]

C16_Witness ==
  /\ Done("unique") /\ kw.return_index /\ ~kw.return_inverse /\ ~kw.return_counts
  /\ ar1 = <<2, 0, 2>> /\ size = None
  /\ ret.out = << <<0, 2>>, <<1, 0>> >>

(***************************************************************************)
(* C17: with assume_unique=False and return_indices=True, intersect1d      *)
(* returns (r, ia, ib) of equal length with, for every i,                  *)
(* 0 <= ia[i] < len(a), 0 <= ib[i] < len(b), a[ia[i]] == r[i] == b[ib[i]], *)
(* and ia[i], ib[i] the smallest positions of a and b holding r[i].        *)
(***************************************************************************)
C17_IntersectIndicesAreFirstOccurrences ==
  (Done("intersect1d") /\ ~kw.assume_unique /\ kw.return_indices) =>
     /\ ret.raised = "none"
     /\ Len(ret.out[2]) = Len(ret.out[1])
     /\ Len(ret.out[3]) = Len(ret.out[1])
     /\ \A j \in 1..Len(ret.out[1]) :
          /\ ret.out[2][j] \in 0..(Len(ar1) - 1)
          /\ ret.out[3][j] \in 0..(Len(ar2) - 1)
          /\ At(ar1, ret.out[2][j]) = ret.out[1][j]
          /\ At(ar2, ret.out[3][j]) = ret.out[1][j]
          /\ \A p \in 0..(ret.out[2][j] - 1) : At(ar1, p) # ret.out[1][j]
          /\ \A p \in 0..(ret.out[3][j] - 1) : At(ar2, p) # ret.out[1][j]

C17_Witness ==
  /\ Done("intersect1d") /\ ~kw.assume_unique /\ kw.return_indices
  /\ ar1 = <<2, 1, 2>> /\ ar2 = <<2, 1>>
  /\ ret.out = << <<1, 2>>, <<1, 0>>, <<1, 0>> >>

(***************************************************************************)
(* C18: for every input and every size s >= 0 for which unique does not    *)
(* raise (input that is empty along the working axis with a fill_value     *)
(* supplied included), unique(x, size=s, return_index=True,                *)
(* return_counts=True) returns values, first-occurrence indices and counts *)
(* that each have length exactly s.                                        *)
(***************************************************************************)
C18_SizedOutputsAllHaveLengthSize ==
  (Done("unique") /\ kw.return_index /\ kw.return_counts /\ ~kw.return_inverse
     /\ size # None /\ size[1] >= 0 /\ ret.raised = "none") =>
     /\ Len(ret.out[1]) = size[1]
     /\ Len(ret.out[2]) = size[1]
     /\ Len(ret.out[3]) = size[1]

(***************************************************************************)
(* C20: for non-empty x the inverse index of unique(x, return_inverse=True,*)
(* size=s, fill_value=f) is the same for every s and f, omitted or not: it *)
(* has one entry per position of x, and entry p is the rank of x[p] among  *)
(* the distinct values of x; so with s < k it is not truncated and holds   *)
(* entries >= s.                                                           *)
(***************************************************************************)
C20_InverseIgnoresSizeAndFill ==
  (Done("unique") /\ kw.return_inverse /\ Len(ar1) > 0
     /\ ((size = None /\ ~traced) \/ (size # None /\ size[1] >= 0))) =>
     /\ ret.raised = "none"
     /\ Len(UInverse) = Len(ar1)
     /\ \A p \in 1..Len(ar1) :
          UInverse[p] = Cardinality({v \in Elems(ar1) : v < ar1[p]})
     /\ UInverse = unique(ar1, FALSE, TRUE, FALSE, None, None).out[2]

C20_Witness ==
  /\ Done("unique") /\ kw.return_inverse /\ ~kw.return_index /\ ~kw.return_counts
  /\ ar1 = <<1, 0>> /\ size = Some(1) /\ fill_value = Some(-1)
  /\ ret.out = << <<0>>, <<1, 0>> >>


(***************************************************************************)
(* C14: for unique, union1d and setdiff1d a call that omits size while its *)
(* data argument is a tracer fails with an error and returns no result;    *)
(* when a concrete size (>= 0) is supplied no concreteness is required of  *)
(* the data, the call behaves as it does on concrete data, and a returned  *)
(* result has the supplied length.                                         *)
(***************************************************************************)
SizedOp == Done("unique") \/ Done("union1d") \/ Done("setdiff1d")

\* What the call held in the state returns when its data is concrete.
ConcreteRet ==
  IF op = "unique"
  THEN unique(ar1, kw.return_index, kw.return_inverse, kw.return_counts,
              size, fill_value)
  ELSE IF op = "union1d" THEN union1d(ar1, ar2, size, fill_value)
  ELSE setdiff1d(ar1, ar2, kw.assume_unique, size, fill_value)

C14_SizeIsNeverDerivedFromTracedData ==
  (SizedOp /\ traced) =>
     /\ size = None =>
          ret.raised = "ConcretizationTypeError" /\ ret.out = <<>>
     /\ (size # None /\ size[1] >= 0) =>
          /\ ret.raised # "ConcretizationTypeError"
          /\ ret = ConcreteRet
          /\ ret.raised = "none" =>
               Len(IF op = "unique" THEN UValues ELSE ret.out) = size[1]

C14_Witness ==
  /\ Done("setdiff1d") /\ traced /\ ~kw.assume_unique
  /\ ar1 = <<1, 0>> /\ ar2 = <<0>> /\ size = Some(3) /\ fill_value = None
  /\ ret.out = <<1, 0, 0>>

(***************************************************************************)
(* C15: a negative size passed to unique, union1d or setdiff1d is rejected *)
(* with an error during the call, and no partial result is returned.       *)
(***************************************************************************)
C15_NegativeSizeIsRejected ==
  (SizedOp /\ size # None /\ size[1] < 0) =>
     ret.raised # "none" /\ ret.out = <<>>

C15_Witness ==
  /\ Done("setdiff1d") /\ ~traced /\ ~kw.assume_unique
  /\ ar1 = <<1, 0>> /\ size = Some(-1)
  /\ ret.raised = "InvalidArgument"

C21_PaddedIndexSlotsRepeatFirstIndex ==
  (Done("unique") /\ kw.return_index /\ Len(ar1) > 0
     /\ size # None /\ size[1] > NDistinct) =>
     /\ ret.raised = "none"
     /\ Len(UIndex) = size[1]
     /\ At(ar1, UIndex[1]) = MinOf(Elems(ar1))
     /\ \A p \in 0..(UIndex[1] - 1) : At(ar1, p) # MinOf(Elems(ar1))
     /\ \A j \in (NDistinct + 1)..size[1] :
          /\ UIndex[j] = UIndex[1]
          /\ (fill_value # None /\ fill_value[1] # MinOf(Elems(ar1))) =>
               At(ar1, UIndex[j]) # UValues[j]

C21_Witness ==
  /\ Done("unique") /\ kw.return_index /\ ~kw.return_inverse /\ ~kw.return_counts
  /\ ar1 = <<1, 0>> /\ size = Some(3) /\ fill_value = Some(-1)
  /\ ret.out = << <<0, 1, -1>>, <<1, 0, 1>> >>

(***************************************************************************)
(* C22: for every a (empty or not), every b and both values of             *)
(* assume_unique, setdiff1d(a, b, size=0) completes without error and      *)
(* returns an array of length 0.                                           *)
(***************************************************************************)
C22_SetdiffSizeZeroReturnsEmpty ==
  (Done("setdiff1d") /\ size = Some(0)) =>
     ret.raised = "none" /\ Len(ret.out) = 0


====
